---------------------------- MODULE Spec2Model ----------------------------
(***************************************************************************)
(* A model of the vue3-component-library plugin: two component definitions *)
(* (InputText, InputTextarea), the registry object that aggregates them    *)
(* (components.js) and the plugin installer (index.js) that registers each *)
(* of them on a host through Vue.component(name, definition).              *)
(*                                                                         *)
(* JavaScript objects are modelled by their identity (a string) and a heap *)
(* "defs" giving the fields of each object.  The registry object is the    *)
(* sequence of its own enumerable properties in insertion order, which is  *)
(* the order for-in visits them; "proto" holds the enumerable properties   *)
(* it inherits (an application that extends Object.prototype), which       *)
(* for-in visits after the own ones.  install runs to completion: it is    *)
(* one action.                                                             *)
(***************************************************************************)
EXTENDS Naturals, Sequences, FiniteSets

VARIABLES
    components,   \* the registry: own properties, <<[prop, def], ...>>
    proto,        \* enumerable properties the registry inherits
    defs,         \* heap: object identity -> [name, render]
    table,        \* per host: the host's component table, name -> definition
    history,      \* one record per install call made so far
    rendered,     \* the last render call: [def, args, node]
    renderCount   \* number of render calls made so far

vars == <<components, proto, defs, table, history, rendered, renderCount>>

---------------------------------------------------------------------------
(* Bounds of the model *)

MaxEntries  == 2     \* own properties of a registry
MaxInstalls == 2     \* install calls in one behaviour
MaxRenders  == 2     \* render calls in one behaviour

---------------------------------------------------------------------------
(* Component definitions: src/InputText.vue and src/InputTextarea.vue as   *)
(* compiled in the bundle.  "script1" and "render1" stand for the bundle's *)
(* script$1 and render$1.                                                  *)

NoDef == "undefined"

\* var script$1 = { name: 'InputText' }; script$1.render = render$1
script1 == [name |-> "InputText", render |-> "render1"]

\* var script = { name: 'InputTextarea' }; script.render = render
script == [name |-> "InputTextarea", render |-> "render"]

\* a function an application hung on Object.prototype: its .name is its own
polyfill == [name |-> "extend", render |-> NoDef]

DefIds == {"script", "script1"}

Heap == [d \in DefIds \cup {"polyfill"} |->
            IF d = "script" THEN script
            ELSE IF d = "script1" THEN script1
            ELSE polyfill]

\* const _hoisted_1 = { type: "text" }
hoisted_1 == {<<"type", "text">>}

\* createElementBlock(type, props): one element node, no children
createElementBlock(type, props) ==
    [type |-> type, props |-> props, children |-> <<>>]

\* a faulty variant of render1: the node's attributes are taken from $props
render1FromProps(ctx, cache, props, setup, data, options) ==
    createElementBlock("input", props)

\* function render$1(_ctx, _cache, $props, $setup, $data, $options)
render1(ctx, cache, props, setup, data, options) ==
    createElementBlock("input", hoisted_1)

\* function render(_ctx, _cache, $props, $setup, $data, $options)
render(ctx, cache, props, setup, data, options) ==
    createElementBlock("textarea", {})

\* the arguments a host passes to a render function
RenderArgs ==
    { [ctx |-> "instance", props |-> p] : p \in {{}, {<<"type", "password">>}} }

\* calling definition.render(...) for the render function the heap names
CallRender(fn, a) ==
    IF fn = "render1"
    THEN render1(a.ctx, "cache", a.props, "setup", "data", "options")
    ELSE render(a.ctx, "cache", a.props, "setup", "data", "options")

---------------------------------------------------------------------------
(* The registry *)

Props == {"InputTextarea", "InputText", "Field"}

\* export default { InputTextarea, InputText }
ShippedComponents ==
    << [prop |-> "InputTextarea", def |-> "script"],
       [prop |-> "InputText",     def |-> "script1"] >>

Entries == [prop : Props, def : DefIds]

\* the object literals the registry module can export: distinct keys
Registries ==
    { r \in UNION { [1..n -> Entries] : n \in 0..MaxEntries } :
        \A i, j \in DOMAIN r : i # j => r[i].prop # r[j].prop }

\* Object.prototype untouched, or extended by one enumerable property
Protos == { <<>>, << [prop |-> "extend", def |-> "polyfill"] >> }

OwnProps(reg) == { reg[i].prop : i \in DOMAIN reg }

\* components.hasOwnProperty(prop)
HasOwnProperty(reg, prop) == prop \in OwnProps(reg)

\* a faulty variant of OwnGuard: the hasOwnProperty test left out
OwnGuardMissing(reg, prop) == TRUE

\* if (components.hasOwnProperty(prop))
OwnGuard(reg, prop) == HasOwnProperty(reg, prop)

\* for (const prop in components): own keys in insertion order, then the
\* inherited enumerable keys that no own key shadows
ForIn(reg, inh) ==
    [i \in DOMAIN reg |-> reg[i].prop] \o
    SelectSeq([i \in DOMAIN inh |-> inh[i].prop],
              LAMBDA p : ~HasOwnProperty(reg, p))

\* components[prop]: the own value, else the inherited one
Get(reg, inh, prop) ==
    IF HasOwnProperty(reg, prop)
    THEN (CHOOSE e \in { reg[i] : i \in DOMAIN reg } : e.prop = prop).def
    ELSE (CHOOSE e \in { inh[i] : i \in DOMAIN inh } : e.prop = prop).def

DeclaredNames(heap, reg) == { heap[reg[i].def].name : i \in DOMAIN reg }

---------------------------------------------------------------------------
(* The host: the object install receives as Vue.  Its component(name, def) *)
(* is the consumed interface; what it does on a duplicate name and for     *)
(* which names it throws are the host's own business.                      *)

Names == {"InputTextarea", "InputText", "Field", "extend"}

HostIds == {"vue", "app", "keep", "failText", "failArea"}

\* "overwrite": the last registration under a name wins (Vue 3);
\* "keep": the first registration under a name stays
HostPolicy(h) == IF h = "keep" THEN "keep" ELSE "overwrite"

\* the names for which the host's component() throws
HostThrowsOn(h) ==
    IF h = "failText" THEN {"InputText"}
    ELSE IF h = "failArea" THEN {"InputTextarea"}
    ELSE {}

\* what the host holds before the first install: the application's own
\* component under "InputText" on the hosts app and keep, nothing elsewhere
InitialTable(h) ==
    [n \in Names |->
        IF h \in {"app", "keep"} /\ n = "InputText" THEN "appInput" ELSE NoDef]

NoError == [kind |-> "none", host |-> "", name |-> ""]

HostError(h, name) == [kind |-> "HostError", host |-> h, name |-> name]

HostThrows(h, name) == name \in HostThrowsOn(h)

\* Vue.component(name, definition), when it does not throw
HostComponent(h, tbl, name, def) ==
    IF HostPolicy(h) = "keep" /\ tbl[name] # NoDef
    THEN tbl
    ELSE [tbl EXCEPT ![name] = def]

---------------------------------------------------------------------------
(* The installer *)

\* a faulty variant of RegistrationName: registered under the registry key
RegistrationNameByKey(heap, prop, component) == prop

\* component.name, the first argument of Vue.component
RegistrationName(heap, prop, component) == heap[component].name

\* a faulty variant of Thrown: the exception is caught and install returns
Swallowed(err, tbl, calls) ==
    [outcome |-> "returned", error |-> NoError, table |-> tbl, calls |-> calls]

\* an exception of Vue.component leaves install: nothing catches it
Thrown(err, tbl, calls) ==
    [outcome |-> "thrown", error |-> err, table |-> tbl, calls |-> calls]

\* the loop ran out of properties: install returns undefined
Returned(tbl, calls) ==
    [outcome |-> "returned", error |-> NoError, table |-> tbl, calls |-> calls]

\* a faulty variant of ForLoop that catches each failure, goes on with the next
\* property and reports the first failure at the end
RECURSIVE ForLoopContinuing(_, _, _, _, _, _, _)
ForLoopContinuing(heap, reg, inh, props, Vue, tbl, calls) ==
    IF props = <<>> THEN
        IF \E i \in DOMAIN calls : HostThrows(Vue, calls[i].name)
        THEN LET i == CHOOSE k \in DOMAIN calls :
                        /\ HostThrows(Vue, calls[k].name)
                        /\ \A m \in 1..(k-1) : ~HostThrows(Vue, calls[m].name)
             IN  Thrown(HostError(Vue, calls[i].name), tbl, calls)
        ELSE Returned(tbl, calls)
    ELSE LET prop == Head(props) IN
        IF ~OwnGuard(reg, prop)
        THEN ForLoopContinuing(heap, reg, inh, Tail(props), Vue, tbl, calls)
        ELSE LET component == Get(reg, inh, prop)
                 name == RegistrationName(heap, prop, component)
                 call == [prop |-> prop, name |-> name, def |-> component]
             IN  ForLoopContinuing(heap, reg, inh, Tail(props), Vue,
                     IF HostThrows(Vue, name) THEN tbl
                     ELSE HostComponent(Vue, tbl, name, component),
                     Append(calls, call))

\* a faulty variant of ForLoop that returns after the first registration
ForLoopFirstOnly(heap, reg, inh, props, Vue, tbl, calls) ==
    LET own == SelectSeq(props, LAMBDA p : OwnGuard(reg, p)) IN
    IF own = <<>> THEN Returned(tbl, calls)
    ELSE LET prop == Head(own)
             component == Get(reg, inh, prop)
             name == RegistrationName(heap, prop, component)
             call == [prop |-> prop, name |-> name, def |-> component]
         IN  IF HostThrows(Vue, name)
             THEN Thrown(HostError(Vue, name), tbl, Append(calls, call))
             ELSE Returned(HostComponent(Vue, tbl, name, component),
                           Append(calls, call))

\* for (const prop in components) { if (...) { const component =
\* components[prop]; Vue.component(component.name, component) } }
\* props: the properties still to visit; tbl: the host's table so far;
\* calls: the Vue.component calls made so far, each with the property it
\* was made for
RECURSIVE ForLoop(_, _, _, _, _, _, _)
ForLoop(heap, reg, inh, props, Vue, tbl, calls) ==
    IF props = <<>> THEN Returned(tbl, calls)
    ELSE LET prop == Head(props) IN
        IF ~OwnGuard(reg, prop)
        THEN ForLoop(heap, reg, inh, Tail(props), Vue, tbl, calls)
        ELSE LET component == Get(reg, inh, prop)
                 name == RegistrationName(heap, prop, component)
                 call == [prop |-> prop, name |-> name, def |-> component]
             IN  IF HostThrows(Vue, name)
                 THEN Thrown(HostError(Vue, name), tbl, Append(calls, call))
                 ELSE ForLoop(heap, reg, inh, Tail(props), Vue,
                              HostComponent(Vue, tbl, name, component),
                              Append(calls, call))

\* a faulty variant of install that does nothing on a host that already holds
\* one of the library's names
installOnce(heap, reg, inh, Vue, tbl) ==
    IF \E n \in DeclaredNames(heap, reg) : tbl[n] # NoDef
    THEN Returned(tbl, <<>>)
    ELSE ForLoop(heap, reg, inh, ForIn(reg, inh), Vue, tbl, <<>>)

\* plugin.install(Vue)
install(heap, reg, inh, Vue, tbl) ==
    ForLoop(heap, reg, inh, ForIn(reg, inh), Vue, tbl, <<>>)

---------------------------------------------------------------------------
(* The state machine *)

NoRender == [def |-> NoDef, args |-> [ctx |-> "none", props |-> {}],
             node |-> createElementBlock(NoDef, {})]

Init ==
    /\ components \in Registries
    /\ proto \in Protos
    /\ defs = Heap
    /\ table = [h \in HostIds |-> InitialTable(h)]
    /\ history = <<>>
    /\ rendered = NoRender
    /\ renderCount = 0

InstallRecord(h, r) ==
    [host |-> h, before |-> table[h], after |-> r.table,
     calls |-> r.calls, outcome |-> r.outcome, error |-> r.error]

\* a faulty variant of Install: each registered property is deleted from the
\* registry once the install has run
InstallDraining(h) ==
    /\ Len(history) < MaxInstalls
    /\ LET r == install(defs, components, proto, h, table[h]) IN
        /\ table' = [table EXCEPT ![h] = r.table]
        /\ history' = Append(history, InstallRecord(h, r))
        /\ components' =
             SelectSeq(components,
                 LAMBDA e : \A i \in DOMAIN r.calls : r.calls[i].prop # e.prop)
    /\ UNCHANGED <<proto, defs, rendered, renderCount>>

\* a caller (app.use(plugin)) calls plugin.install(h)
Install(h) ==
    /\ Len(history) < MaxInstalls
    /\ LET r == install(defs, components, proto, h, table[h]) IN
        /\ table' = [table EXCEPT ![h] = r.table]
        /\ history' = Append(history, InstallRecord(h, r))
    /\ UNCHANGED <<components, proto, defs, rendered, renderCount>>

\* the host renders a component of the registry
Render(d, a) ==
    /\ renderCount < MaxRenders
    /\ rendered' = [def |-> d, args |-> a, node |-> CallRender(defs[d].render, a)]
    /\ renderCount' = renderCount + 1
    /\ UNCHANGED <<components, proto, defs, table, history>>

Next ==
    \/ \E h \in HostIds : Install(h)
    \/ \E d \in DefIds, a \in RenderArgs : Render(d, a)

Spec == Init /\ [][Next]_vars

---------------------------------------------------------------------------
(* Helpers of the properties *)

Records == { history[k] : k \in DOMAIN history }

\* the Vue.component calls of record r made for registry key prop
CallsFor(r, prop) == { j \in DOMAIN r.calls : r.calls[j].prop = prop }

\* the (name, definition) argument pairs of the calls of record r
CallArgs(r) == { <<r.calls[j].name, r.calls[j].def>> : j \in DOMAIN r.calls }

\* every iteration order of the entries of registry reg
Orders(reg) ==
    { [i \in DOMAIN reg |-> reg[f[i]]] :
        f \in { g \in [DOMAIN reg -> DOMAIN reg] :
                  \A a, b \in DOMAIN reg : a # b => g[a] # g[b] } }

NamesDistinct == Cardinality(DeclaredNames(defs, components)) = Len(components)

\* the host's table after the successful calls cs, in order, from tbl
RECURSIVE TableAfter(_, _, _)
TableAfter(h, tbl, cs) ==
    IF cs = <<>> THEN tbl
    ELSE TableAfter(h, HostComponent(h, tbl, Head(cs).name, Head(cs).def), Tail(cs))

---------------------------------------------------------------------------
(* C1 *)

\* C1: an install call that completes normally makes, for every entry of
\* the registry, exactly one registration call, and that call passes the
\* entry's definition object and that definition's declared name.
C1_EachComponentRegisteredOnce ==
    \A r \in Records : r.outcome = "returned" =>
        \A i \in DOMAIN components :
            /\ Cardinality(CallsFor(r, components[i].prop)) = 1
            /\ \A j \in CallsFor(r, components[i].prop) :
                 /\ r.calls[j].def = components[i].def
                 /\ r.calls[j].name = defs[components[i].def].name

C1_Witness ==
    \E r \in Records :
        /\ r.outcome = "returned"
        /\ Len(components) = 2
        /\ \E i \in DOMAIN components :
             components[i].prop # defs[components[i].def].name

(* C2 *)

\* C2: with the shipped registry, an install on a host that never throws
\* makes exactly two registration calls: ("InputText", the InputText
\* definition) and ("InputTextarea", the InputTextarea definition).
C2_ShippedRegistryTwoCalls ==
    \A r \in Records :
        (components = ShippedComponents /\ HostThrowsOn(r.host) = {}) =>
            /\ Len(r.calls) = 2
            /\ CallArgs(r) = { <<"InputText", "script1">>,
                               <<"InputTextarea", "script">> }
            /\ defs["script1"] = script1
            /\ defs["script"] = script

C2_Witness ==
    \E r \in Records :
        /\ components = ShippedComponents
        /\ HostThrowsOn(r.host) = {}
        /\ proto # <<>>
        /\ r.outcome = "returned"

(* C3 *)

\* C3: an install call that completes normally makes as many registration
\* calls as the registry has keys: one for each key, none for anything else.
C3_CallCountIsKeyCount ==
    \A r \in Records : r.outcome = "returned" =>
        /\ Len(r.calls) = Len(components)
        /\ Len(r.calls) = Cardinality(OwnProps(components))
        /\ \A j \in DOMAIN r.calls : r.calls[j].prop \in OwnProps(components)
        /\ \A a, b \in DOMAIN r.calls : a # b => r.calls[a].prop # r.calls[b].prop

C3_Witness ==
    \E r \in Records :
        /\ r.outcome = "returned"
        /\ Len(components) = MaxEntries
        /\ proto # <<>>

(* C4 *)

\* C4 as stated, on a host that held nothing before the install: for an
\* entry whose key differs from its definition's name, after a completed
\* install the host holds the definition under the declared name and holds
\* nothing under the key.
C4_Original ==
    \A r \in Records :
      (r.outcome = "returned" /\ \A n \in Names : r.before[n] = NoDef) =>
        \A i \in DOMAIN components :
            LET prop == components[i].prop
                def  == components[i].def
            IN  prop # defs[def].name =>
                    /\ r.after[defs[def].name] = def
                    /\ r.after[prop] = NoDef

\* C4 amended: every registration call passes the definition's declared
\* name.  For an entry whose key differs from that name, after a completed
\* install the host holds the definition under the declared name when no
\* other entry declares that name and the host overwrites or held nothing
\* under it, and holds under the key what it held before the install
\* (nothing, if it held nothing) when the key is no entry's declared name.
C4_RegisteredByDeclaredName ==
    \A r \in Records :
        /\ \A j \in DOMAIN r.calls :
             /\ r.calls[j].name = defs[r.calls[j].def].name
             /\ r.calls[j].def = Get(components, proto, r.calls[j].prop)
        /\ r.outcome = "returned" =>
             \A i \in DOMAIN components :
                LET prop == components[i].prop
                    def  == components[i].def
                    name == defs[def].name
                IN  prop # name =>
                      /\ ( /\ \A m \in DOMAIN components :
                                m # i => defs[components[m].def].name # name
                           /\ HostPolicy(r.host) = "overwrite" \/ r.before[name] = NoDef )
                         => r.after[name] = def
                      /\ prop \notin DeclaredNames(defs, components)
                         => r.after[prop] = r.before[prop]

C4_Witness ==
    \E r \in Records :
        /\ r.outcome = "returned"
        /\ \E i \in DOMAIN components :
             /\ components[i].prop = "Field"
             /\ components[i].def = "script1"
             /\ r.after["InputText"] = "script1"
             /\ r.before["Field"] = NoDef
             /\ r.after["Field"] = NoDef

(* C5 *)

\* C5: when the host's registration operation throws for a name during an
\* install, that install ends by throwing the host's own error: it is not
\* caught, not replaced by another error, and the install does not return.
C5_HostFailurePropagates ==
    \A r \in Records :
        \A j \in DOMAIN r.calls :
            HostThrows(r.host, r.calls[j].name) =>
                /\ r.outcome = "thrown"
                /\ r.error = HostError(r.host, r.calls[j].name)

C5_Witness ==
    \E r \in Records :
        /\ r.outcome = "thrown"
        /\ r.error.kind = "HostError"
        /\ Len(r.calls) = 2

(* C6 *)

\* C6: no install call, successful or failed, changes the registry or a
\* definition: an install step changes only the table of the host it was
\* called with and the record of the calls.
C6_RegistryReadOnly ==
    [][ history' # history =>
          /\ components' = components
          /\ proto' = proto
          /\ defs' = defs
          /\ defs'["script"] = script /\ defs'["script1"] = script1
          /\ rendered' = rendered
          /\ \A h \in HostIds :
               h # history'[Len(history')].host => table'[h] = table[h] ]_vars

C6_Witness ==
    /\ Len(history) = 2
    /\ components = ShippedComponents
    /\ defs = Heap
    /\ history[1].outcome = "thrown"
    /\ history[2].outcome = "returned"
    /\ history[1].host # history[2].host

(* C7 *)

\* C7: every render call, whatever its arguments and however many calls
\* came before, yields the same single node (an input of type text for
\* InputText, a textarea for InputTextarea) and changes neither the
\* definitions nor the registry.
C7_RenderPure ==
    [][ renderCount' # renderCount =>
          /\ rendered'.def = "script1" =>
               rendered'.node = [type |-> "input",
                                 props |-> {<<"type", "text">>},
                                 children |-> <<>>]
          /\ rendered'.def = "script" =>
               rendered'.node = [type |-> "textarea",
                                 props |-> {},
                                 children |-> <<>>]
          /\ rendered'.def \in DefIds
          /\ defs' = defs
          /\ components' = components ]_vars

C7_Witness ==
    /\ renderCount >= 2
    /\ rendered.def = "script1"
    /\ rendered.args.props # {}
    /\ rendered.node.props = {<<"type", "text">>}

(* C8 *)

C9_OrderIrrelevant ==
    \A r \in Records :
        (r.outcome = "returned" /\ NamesDistinct) =>
            \A reg \in Orders(components) :
                LET other == install(defs, reg, proto, r.host, r.before)
                IN  /\ other.outcome = "returned"
                    /\ other.table = r.after

C9_Witness ==
    \E r \in Records :
        /\ r.outcome = "returned"
        /\ components = ShippedComponents
        /\ NamesDistinct
        /\ Cardinality(Orders(components)) = 2
        /\ r.after["InputText"] = "script1"
        /\ r.after["InputTextarea"] = "script"

(* C10 *)

\* C10: an install that throws made its last call for the first entry, in
\* iteration order, whose name the host throws for; the calls before it
\* are those of the entries before it, their registrations stay in the
\* host's table, and no call follows.  With the shipped registry a failure
\* on InputTextarea leaves InputText unregistered and a failure on
\* InputText leaves InputTextarea registered.
C10_AbortAtFirstFailure ==
    \A r \in Records : r.outcome = "thrown" =>
        LET k == Len(r.calls) IN
        /\ k >= 1
        /\ k <= Len(components)
        /\ HostThrows(r.host, r.calls[k].name)
        /\ \A m \in 1..(k-1) : ~HostThrows(r.host, r.calls[m].name)
        /\ \A m \in 1..k :
             /\ r.calls[m].prop = components[m].prop
             /\ r.calls[m].def = components[m].def
        /\ r.after = TableAfter(r.host, r.before, SubSeq(r.calls, 1, k-1))
        /\ (components = ShippedComponents /\ r.host = "failArea") =>
             /\ k = 1
             /\ r.after["InputText"] = NoDef
             /\ r.after = r.before
        /\ (components = ShippedComponents /\ r.host = "failText") =>
             /\ k = 2
             /\ r.after["InputTextarea"] = "script"
             /\ r.after["InputText"] = NoDef

C10_Witness ==
    \E r \in Records :
        /\ r.outcome = "thrown"
        /\ components = ShippedComponents
        /\ r.host = "failText"
        /\ r.after["InputTextarea"] = "script"

===========================================================================
